---- MODULE Spec2Model ----
(***************************************************************************)
(* The Products API of server.js: an Express application over an in-memory *)
(* array of product records.  A request is answered by one synchronous run *)
(* of the middleware chain express.json -> logger -> [authenticate ->      *)
(* validateProduct ->] route handler -> error handler.                     *)
(*                                                                         *)
(* JavaScript values are tagged records [t, n, s]: t is the typeof tag, n  *)
(* the number (1/0 for a boolean), s the string as a tuple of characters.  *)
(* Prices are held in hundredths: 999.99 is Num(99999), -5 is Num(-500).   *)
(***************************************************************************)
EXTENDS Integers, Sequences, FiniteSets

\* ---------------------------------------------------------------- bounds

\* uuidv4() is called at most MaxUuid times in a run (three calls seed the store).
MaxUuid == 4

\* Connections that may hold a request in flight at the same time.
NConn == 2

\* ------------------------------------------------------ JavaScript values

Undef == [t |-> "undefined", n |-> 0, s |-> <<>>]

Num(n) == [t |-> "number", n |-> n, s |-> <<>>]

Str(s) == [t |-> "string", n |-> 0, s |-> s]

Bool(b) == [t |-> "boolean", n |-> IF b THEN 1 ELSE 0, s |-> <<>>]

\* ToBoolean: undefined, 0, "" and false are falsy.
Truthy(v) ==
    CASE v.t = "undefined" -> FALSE
      [] v.t = "number" -> v.n # 0
      [] v.t = "string" -> v.s # <<>>
      [] v.t = "boolean" -> v.n = 1
      [] OTHER -> TRUE

UpperChars == <<"A","B","C","D","E","F","G","H","I","J","K","L","M","N","O","P","Q","R","S","T","U","V","W","X","Y","Z">>

LowerChars == <<"a","b","c","d","e","f","g","h","i","j","k","l","m","n","o","p","q","r","s","t","u","v","w","x","y","z">>

DigitChars == <<"0","1","2","3","4","5","6","7","8","9">>

LowerChar(ch) ==
    IF \E i \in 1..Len(UpperChars) : UpperChars[i] = ch
    THEN LowerChars[CHOOSE i \in 1..Len(UpperChars) : UpperChars[i] = ch]
    ELSE ch

\* String.prototype.toLowerCase on a tuple of characters.
toLowerCase(s) == [i \in 1..Len(s) |-> LowerChar(s[i])]

\* String.prototype.includes.
includes(s, sub) ==
    \E i \in 0..(Len(s) - Len(sub)) : SubSeq(s, i + 1, i + Len(sub)) = sub

DigitValue(ch) == (CHOOSE i \in 1..Len(DigitChars) : DigitChars[i] = ch) - 1

RECURSIVE ParseDigits(_)
ParseDigits(s) ==
    IF s = <<>> THEN 0
    ELSE 10 * ParseDigits(SubSeq(s, 1, Len(s) - 1)) + DigitValue(s[Len(s)])

\* ToNumber, as the arithmetic of `page - 1` and `page * limit` applies it to
\* a query-string value (a string of decimal digits) or to a default number.
ToNumber(v) == IF v.t = "number" THEN v.n ELSE ParseDigits(v.s)

\* ------------------------------------------------------------ the store

\* The n-th identifier uuidv4() returns: fresh, never returned before.
uuidv4(n) == Str(<<"u", DigitChars[n + 1]>>)

SeedProducts ==
    << [id |-> uuidv4(1),
        name |-> Str(<<"L","a","p","t","o","p">>),
        description |-> Str(<<"H","i","g","h"," ","p","e","r","f","o","r","m","a","n","c","e"," ","l","a","p","t","o","p">>),
        price |-> Num(99999),
        category |-> Str(<<"E","l","e","c","t","r","o","n","i","c","s">>),
        inStock |-> Bool(TRUE)],
       [id |-> uuidv4(2),
        name |-> Str(<<"S","m","a","r","t","p","h","o","n","e">>),
        description |-> Str(<<"L","a","t","e","s","t"," ","m","o","d","e","l"," ","s","m","a","r","t","p","h","o","n","e">>),
        price |-> Num(69999),
        category |-> Str(<<"E","l","e","c","t","r","o","n","i","c","s">>),
        inStock |-> Bool(TRUE)],
       [id |-> uuidv4(3),
        name |-> Str(<<"D","e","s","k"," ","C","h","a","i","r">>),
        description |-> Str(<<"E","r","g","o","n","o","m","i","c"," ","o","f","f","i","c","e"," ","c","h","a","i","r">>),
        price |-> Num(19999),
        category |-> Str(<<"F","u","r","n","i","t","u","r","e">>),
        inStock |-> Bool(FALSE)] >>

\* Array.prototype.findIndex on p.id === id, 1-based; 0 stands for -1.
findIndex(store, id) ==
    IF \E i \in 1..Len(store) : store[i].id = id
    THEN CHOOSE i \in 1..Len(store) :
            /\ store[i].id = id
            /\ \A j \in 1..(i - 1) : store[j].id # id
    ELSE 0

\* products.splice(index, 1), index 1-based.
splice(store, index) ==
    SubSeq(store, 1, index - 1) \o SubSeq(store, index + 1, Len(store))

\* Array.prototype.slice(start, end) with 0-based bounds, negative bounds
\* counted from the end.
slice(seq, start, end) ==
    LET len == Len(seq)
        from == IF start < 0 THEN (IF len + start < 0 THEN 0 ELSE len + start)
                ELSE (IF start > len THEN len ELSE start)
        to == IF end < 0 THEN (IF len + end < 0 THEN 0 ELSE len + end)
              ELSE (IF end > len THEN len ELSE end)
    IN  SubSeq(seq, from + 1, to)

\* Object spread { ...old, ...body }: a key the body holds overwrites.
spread(old, body) ==
    [id |-> IF body.id # Undef THEN body.id ELSE old.id,
     name |-> IF body.name # Undef THEN body.name ELSE old.name,
     description |-> IF body.description # Undef THEN body.description ELSE old.description,
     price |-> IF body.price # Undef THEN body.price ELSE old.price,
     category |-> IF body.category # Undef THEN body.category ELSE old.category,
     inStock |-> IF body.inStock # Undef THEN body.inStock ELSE old.inStock]

\* ------------------------------------------------------- status codes

OkStatus == 200

CreatedStatus == 201

NoContentStatus == 204

UnauthorizedStatus == 401

InternalErrorStatus == 500

\* The statusCode express.json() gives the error it forwards for a body it
\* cannot parse.
ParseErrorStatus == 400

\* The statusCode of the ValidationError and NotFoundError classes of ./errors.
ValidationErrorStatus == 400

NotFoundErrorStatus == 404

\* The statusCode of an error that has none (a TypeError thrown by a handler).
NoStatusCode == 0

DefaultPage == 1

DefaultLimit == 10

\* ------------------------------------------------- requests and responses

Body(id, name, description, price, category, inStock) ==
    [id |-> id, name |-> name, description |-> description, price |-> price,
     category |-> category, inStock |-> inStock]

EmptyBody == Body(Undef, Undef, Undef, Undef, Undef, Undef)

\* A request: the route it matches (op, "unmatched" when none does), its
\* x-api-key header (key), its :id parameter, whether express.json() can parse
\* its body (json), the parsed body, and its query parameters.  A part the
\* request lacks is Undef.
Request(op, key, id, json, body, q, category, page, limit) ==
    [op |-> op, key |-> key, id |-> id, json |-> json, body |-> body,
     q |-> q, category |-> category, page |-> page, limit |-> limit]

NoRequest == Request("none", Undef, Undef, TRUE, EmptyBody, Undef, Undef, Undef, Undef)

\* A response: its status, the name of the failure ("" when there is none),
\* the product records of its body in order, and the `total` of a listing.
Response(status, error, items, total) ==
    [status |-> status, error |-> error, items |-> items, total |-> total]

NoResponse == Response(0, "", <<>>, 0)

\* What one run of the application leaves: the store, the number of uuids
\* generated so far, and the response.
Outcome(store, n, res) == [products |-> store, uuidCount |-> n, res |-> res]

\* ------------------------------------------------------------ middleware

\* authenticate without its `!apiKey` test: the header is only compared.
authenticate_CompareOnly(req, env) ==
    ~(req.key # env)

\* authenticate calls next() (TRUE) or answers 401 itself (FALSE).
authenticate(req, env) ==
    ~(~Truthy(req.key) \/ req.key # env)

\* validateProduct without its second test, on the price.
validateProduct_RequiredOnly(body) ==
    IF ~Truthy(body.name) \/ ~Truthy(body.price) \/ ~Truthy(body.category)
    THEN FALSE
    ELSE TRUE

\* validateProduct calls next() (TRUE) or next(new ValidationError) (FALSE).
validateProduct(body) ==
    IF ~Truthy(body.name) \/ ~Truthy(body.price) \/ ~Truthy(body.category)
    THEN FALSE
    ELSE IF body.price.t # "number" \/ body.price.n <= 0
    THEN FALSE
    ELSE TRUE

\* The error handling middleware: err.statusCode || 500.
errorHandler(statusCode, name) ==
    Response(IF statusCode # 0 THEN statusCode ELSE InternalErrorStatus, name, <<>>, 0)

\* Routes registered with authenticate, and with validateProduct.
Protected(op) == op \in {"post", "put", "delete"}

\* validateProduct registered on the POST route alone.
Validated_PostOnly(op) == op = "post"

Validated(op) == op \in {"post", "put"}

\* -------------------------------------------------------- route handlers

\* GET /api/products.  The filter calls p.category.toLowerCase() on every
\* record: a category that is no string throws a TypeError.
listProducts(store, req) ==
    LET page == IF req.page = Undef THEN Num(DefaultPage) ELSE req.page
        limit == IF req.limit = Undef THEN Num(DefaultLimit) ELSE req.limit
        throws == /\ Truthy(req.category)
                  /\ \E i \in 1..Len(store) : store[i].category.t # "string"
        keep(p) == toLowerCase(p.category.s) = toLowerCase(req.category.s)
        filtered == IF Truthy(req.category) THEN SelectSeq(store, keep) ELSE store
        startIndex == (ToNumber(page) - 1) * ToNumber(limit)
        endIndex == ToNumber(page) * ToNumber(limit)
    IN  IF throws THEN errorHandler(NoStatusCode, "TypeError")
        ELSE Response(OkStatus, "", slice(filtered, startIndex, endIndex), Len(filtered))

\* The predicate of the search filter on one record: "throw", "keep" or "drop".
searchOne(p, q) ==
    IF p.name.t # "string" THEN "throw"
    ELSE IF includes(toLowerCase(p.name.s), toLowerCase(q.s)) THEN "keep"
    ELSE IF p.description.t # "string" THEN "throw"
    ELSE IF includes(toLowerCase(p.description.s), toLowerCase(q.s)) THEN "keep"
    ELSE "drop"

\* GET /api/products/search.
searchProducts(store, req) ==
    LET keep(p) == searchOne(p, req.q) = "keep"
    IN  IF ~Truthy(req.q) THEN errorHandler(ValidationErrorStatus, "ValidationError")
        ELSE IF \E i \in 1..Len(store) : searchOne(store[i], req.q) = "throw"
        THEN errorHandler(NoStatusCode, "TypeError")
        ELSE Response(OkStatus, "", SelectSeq(store, keep), 0)

\* GET /api/products/:id.
getProduct(store, id) ==
    LET index == findIndex(store, id)
    IN  IF index = 0 THEN errorHandler(NotFoundErrorStatus, "NotFoundError")
        ELSE Response(OkStatus, "", <<store[index]>>, 0)

\* The record POST /api/products builds: inStock is req.body.inStock || true.
newProduct(n, body) ==
    [id |-> uuidv4(n),
     name |-> body.name,
     description |-> body.description,
     price |-> body.price,
     category |-> body.category,
     inStock |-> IF Truthy(body.inStock) THEN body.inStock ELSE Bool(TRUE)]

\* POST /api/products.
createProduct(store, n, body) ==
    LET product == newProduct(n + 1, body)
    IN  Outcome(Append(store, product), n + 1,
                Response(CreatedStatus, "", <<product>>, 0))

\* PUT /api/products/:id.
updateProduct(store, n, id, body) ==
    LET index == findIndex(store, id)
    IN  IF index = 0
        THEN Outcome(store, n, errorHandler(NotFoundErrorStatus, "NotFoundError"))
        ELSE LET merged == spread(store[index], body)
             IN  Outcome([store EXCEPT ![index] = merged], n,
                         Response(OkStatus, "", <<merged>>, 0))

\* DELETE /api/products/:id.
deleteProduct(store, n, id) ==
    LET index == findIndex(store, id)
    IN  IF index = 0
        THEN Outcome(store, n, errorHandler(NotFoundErrorStatus, "NotFoundError"))
        ELSE Outcome(splice(store, index), n, Response(NoContentStatus, "", <<>>, 0))

\* One request through the application: express.json(), logger (which only
\* writes to the console), then the route's middleware and handler, each
\* failure ending in the error handler.
app(store, n, env, req) ==
    IF ~req.json
    THEN Outcome(store, n, errorHandler(ParseErrorStatus, "SyntaxError"))
    ELSE IF Protected(req.op) /\ ~authenticate(req, env)
    THEN Outcome(store, n, Response(UnauthorizedStatus, "Unauthorized", <<>>, 0))
    ELSE IF Validated(req.op) /\ ~validateProduct(req.body)
    THEN Outcome(store, n, errorHandler(ValidationErrorStatus, "ValidationError"))
    ELSE CASE req.op = "list" -> Outcome(store, n, listProducts(store, req))
           [] req.op = "search" -> Outcome(store, n, searchProducts(store, req))
           [] req.op = "get" -> Outcome(store, n, getProduct(store, req.id))
           [] req.op = "post" -> createProduct(store, n, req.body)
           [] req.op = "put" -> updateProduct(store, n, req.id, req.body)
           [] req.op = "delete" -> deleteProduct(store, n, req.id)
           [] OTHER -> Outcome(store, n, errorHandler(NotFoundErrorStatus, "NotFoundError"))

\* ------------------------------------------------------------- inputs

Phone == Str(<<"P","h","o","n","e">>)

NewPhone == Str(<<"N","e","w"," ","p","h","o","n","e">>)

LowerElectronics == Str(<<"e","l","e","c","t","r","o","n","i","c","s">>)

\* Bodies validateProduct rejects.
InvalidBodies ==
    { EmptyBody,
      Body(Undef, Undef, Undef, Num(5000), Undef, Undef),
      Body(Undef, Phone, Undef, Num(-500), LowerElectronics, Undef),
      Body(Undef, Phone, Undef, Num(0), LowerElectronics, Undef),
      Body(Undef, Phone, Undef, Str(<<"5","0">>), LowerElectronics, Undef),
      Body(Undef, Phone, Undef, Num(5000), Undef, Undef),
      Body(Undef, Undef, Undef, Num(5000), LowerElectronics, Undef) }

\* Bodies validateProduct accepts: the required fields alone; with a
\* description and inStock false; with an id; with a category that is a number.
ValidBodies ==
    { Body(Undef, Phone, Undef, Num(5000), LowerElectronics, Undef),
      Body(Undef, Phone, NewPhone, Num(5000), LowerElectronics, Bool(FALSE)),
      Body(uuidv4(2), Phone, Undef, Num(5000), LowerElectronics, Undef),
      Body(Undef, Phone, Undef, Num(5000), Num(5), Undef) }

Bodies == InvalidBodies \union ValidBodies

\* The x-api-key headers requests carry, and the values of process.env.API_KEY.
ApiKeys == {Undef, Str(<<"k","1">>), Str(<<"k","2">>)}

EnvApiKeys == {Undef, Str(<<"k","1">>)}

\* The ids requests name: the first two seeded records and the first created one.
TargetIds == {uuidv4(1), uuidv4(2), uuidv4(4)}

Queries == {Undef, Str(<<>>), Str(<<"P","H","O","N","E">>), Str(<<"l","a","p">>)}

Categories == {Undef, Str(<<"E","L","E","C","T","R","O","N","I","C","S">>)}

PageValues == {Undef, Str(<<"1">>), Str(<<"2">>)}

\* A request with a body: parsed, or one express.json() cannot parse.
WithBody(op, key, id) ==
    { Request(op, key, id, TRUE, b, Undef, Undef, Undef, Undef) : b \in Bodies }
        \union { Request(op, key, id, FALSE, EmptyBody, Undef, Undef, Undef, Undef) }

Requests ==
    UNION { WithBody("post", k, Undef) : k \in ApiKeys }
    \union UNION { WithBody("put", k, id) : k \in ApiKeys, id \in TargetIds }
    \union { Request("delete", k, id, TRUE, EmptyBody, Undef, Undef, Undef, Undef) :
                k \in ApiKeys, id \in TargetIds }
    \union { Request("get", Undef, id, TRUE, EmptyBody, Undef, Undef, Undef, Undef) :
                id \in TargetIds }
    \union { Request("search", Undef, Undef, TRUE, EmptyBody, q, Undef, Undef, Undef) :
                q \in Queries }
    \union { Request("list", Undef, Undef, TRUE, EmptyBody, Undef, c, pg, lim) :
                c \in Categories, pg \in PageValues, lim \in PageValues }
    \union { Request("unmatched", Undef, Undef, TRUE, EmptyBody, Undef, Undef, Undef, Undef) }

\* The requests that arrive concurrently: authenticated deletes, an update
\* and a create.
ConcurrentRequests ==
    { r \in Requests :
        /\ r.key = Str(<<"k","1">>)
        /\ r.json
        /\ \/ r.op = "delete" /\ r.id \in {uuidv4(1), uuidv4(2)}
           \/ r.op = "put" /\ r.id = uuidv4(1) /\ r.body.id # Undef
           \/ r.op = "post" /\ r.body.inStock # Undef }

\* ---------------------------------------------------------------- state

VARIABLES
    products,   \* the in-memory array
    uuidCount,  \* how many ids uuidv4() has returned
    apiKey,     \* process.env.API_KEY
    conn,       \* per connection: the request in flight or answered
    race        \* per connection: the connections whose delete raced with its own

vars == <<products, uuidCount, apiKey, conn, race>>

Conns == 1..NConn

\* A connection is idle, holds a request that has arrived (pending), or holds
\* a request with its response, the store the handler found and the store it left.
Slot(st, req, res, before, after) ==
    [st |-> st, req |-> req, res |-> res, before |-> before, after |-> after]

IdleSlot == Slot("idle", NoRequest, NoResponse, <<>>, <<>>)

Init ==
    /\ products = SeedProducts
    /\ uuidCount = Len(SeedProducts)
    /\ apiKey \in EnvApiKeys
    /\ conn = [c \in Conns |-> IdleSlot]
    /\ race = [c \in Conns |-> {}]

\* r, arriving on connection c, and the pending request of connection d are
\* deletes of the same id, which the store holds, both with the valid key.
Racing(c, r, d) ==
    /\ d # c
    /\ conn[d].st = "pending"
    /\ r.op = "delete" /\ conn[d].req.op = "delete"
    /\ r.id = conn[d].req.id
    /\ r.json /\ conn[d].req.json
    /\ authenticate(r, apiKey) /\ authenticate(conn[d].req, apiKey)
    /\ findIndex(products, r.id) # 0

\* A request arrives on an idle connection and waits for the event loop.
Arrive(c, r) ==
    /\ conn[c].st = "idle"
    /\ conn' = [conn EXCEPT ![c] = Slot("pending", r, NoResponse, <<>>, <<>>)]
    /\ race' = [d \in Conns |->
                   IF d = c THEN {e \in Conns : Racing(c, r, e)}
                   ELSE IF Racing(c, r, d) THEN race[d] \union {c}
                   ELSE race[d] \ {c}]
    /\ UNCHANGED <<products, uuidCount, apiKey>>

\* The event loop runs the middleware chain and the handler of a pending
\* request to completion: no other request runs in between.
Handle(c) ==
    /\ conn[c].st = "pending"
    /\ LET out == app(products, uuidCount, apiKey, conn[c].req)
       IN  /\ out.uuidCount <= MaxUuid
           /\ products' = out.products
           /\ uuidCount' = out.uuidCount
           /\ conn' = [conn EXCEPT ![c] =
                          Slot("answered", conn[c].req, out.res, products, out.products)]
    /\ UNCHANGED <<apiKey, race>>

\* The response has been sent: the connection takes the next request.
Finish(c) ==
    /\ conn[c].st = "answered"
    /\ conn' = [conn EXCEPT ![c] = IdleSlot]
    /\ race' = [d \in Conns |-> IF d = c THEN {} ELSE race[d] \ {c}]
    /\ UNCHANGED <<products, uuidCount, apiKey>>

\* Requests one at a time, each answered before the next arrives.
Next ==
    \/ \E r \in Requests : Arrive(1, r)
    \/ Handle(1)
    \/ Finish(1)

Spec == Init /\ [][Next]_vars

\* Requests in flight on several connections at once.
NextConcurrent ==
    \/ \E c \in Conns, r \in ConcurrentRequests : Arrive(c, r)
    \/ \E c \in Conns : Handle(c)
    \/ \E c \in Conns : Finish(c)

SpecConcurrent == Init /\ [][NextConcurrent]_vars

\* ------------------------------------------------------------ properties

Answered(c) == conn[c].st = "answered"

Mutating(r) == r.op \in {"post", "put", "delete"}

\* The request carries the configured secret in x-api-key.
HasValidKey(r) == r.key # Undef /\ r.key = apiKey

\* The body holds name, price and category, and its price is a positive number.
WellFormed(body) ==
    /\ body.name # Undef /\ body.price # Undef /\ body.category # Undef
    /\ body.price.t = "number" /\ body.price.n > 0

\* The string v contains q, case-insensitively; a value that is no string
\* contains nothing.
ContainsText(v, q) ==
    v.t = "string" /\ includes(toLowerCase(v.s), toLowerCase(q.s))

Min(a, b) == IF a < b THEN a ELSE b

\* C1: in every reachable state no two records of the store have the same id.
C1_UniqueIds ==
    \A i, j \in 1..Len(products) : i # j => products[i].id # products[j].id

C3_InvalidCreateIs400 ==
    \A c \in Conns :
        (/\ Answered(c)
         /\ conn[c].req.op = "post"
         /\ conn[c].req.json
         /\ HasValidKey(conn[c].req)
         /\ ~WellFormed(conn[c].req.body))
            => /\ conn[c].res.status = 400
               /\ conn[c].after = conn[c].before

\* An authenticated create with price -5 has been answered 400.
C3_Witness ==
    \E c \in Conns :
        /\ Answered(c)
        /\ conn[c].req.op = "post"
        /\ HasValidKey(conn[c].req)
        /\ conn[c].req.body.name # Undef
        /\ conn[c].req.body.category # Undef
        /\ conn[c].req.body.price = Num(-500)
        /\ conn[c].res.status = 400

\* C4: an authenticated update of a stored id whose body holds only a positive
\* price succeeds; getById then returns the record with the new price and its
\* other fields as before, and every other record is unchanged.
C4_PriceOnlyUpdate ==
    \A c \in Conns :
        (/\ Answered(c)
         /\ conn[c].req.op = "put"
         /\ conn[c].req.json
         /\ HasValidKey(conn[c].req)
         /\ conn[c].req.body.price.t = "number" /\ conn[c].req.body.price.n > 0
         /\ conn[c].req.body = [EmptyBody EXCEPT !.price = conn[c].req.body.price]
         /\ findIndex(conn[c].before, conn[c].req.id) # 0)
            => LET i == findIndex(conn[c].before, conn[c].req.id)
                   got == getProduct(conn[c].after, conn[c].req.id)
               IN  /\ conn[c].res.status = 200
                   /\ got.status = 200
                   /\ got.items = << [conn[c].before[i] EXCEPT !.price = conn[c].req.body.price] >>
                   /\ Len(conn[c].after) = Len(conn[c].before)
                   /\ \A j \in 1..Len(conn[c].before) :
                        j # i => conn[c].after[j] = conn[c].before[j]

\* C5: after a delete answered 204, getById of its id is answered 404, and the
\* store is the store before it with that one record removed, the others
\* unchanged and in the same order.
C5_DeleteThenNotFound ==
    \A c \in Conns :
        (Answered(c) /\ conn[c].req.op = "delete" /\ conn[c].res.status = 204)
            => /\ getProduct(conn[c].after, conn[c].req.id).status = 404
               /\ \E i \in 1..Len(conn[c].before) :
                    /\ conn[c].before[i].id = conn[c].req.id
                    /\ conn[c].after = splice(conn[c].before, i)

\* C6: an authenticated, valid create appends one record with the body's name,
\* description, price and category, whose inStock is true when the body omits
\* it and the supplied boolean when the body supplies one.
C6_CreateAppends ==
    \A c \in Conns :
        (/\ Answered(c)
         /\ conn[c].req.op = "post"
         /\ conn[c].req.json
         /\ HasValidKey(conn[c].req)
         /\ WellFormed(conn[c].req.body))
            => LET body == conn[c].req.body
                   n == Len(conn[c].before)
               IN  /\ Len(conn[c].after) = n + 1
                   /\ SubSeq(conn[c].after, 1, n) = conn[c].before
                   /\ conn[c].after[n + 1].name = body.name
                   /\ conn[c].after[n + 1].description = body.description
                   /\ conn[c].after[n + 1].price = body.price
                   /\ conn[c].after[n + 1].category = body.category
                   /\ conn[c].after[n + 1].inStock =
                        IF body.inStock = Undef THEN Bool(TRUE) ELSE body.inStock

\* C7: in every reachable state every record's price is a number above 0.
C7_PricePositive ==
    \A i \in 1..Len(products) :
        products[i].price.t = "number" /\ products[i].price.n > 0

\* An update has been answered 200 and left its price, 50, in the store.
C7_Witness ==
    \E c \in Conns :
        /\ Answered(c)
        /\ conn[c].req.op = "put"
        /\ conn[c].res.status = 200
        /\ conn[c].req.body.price = Num(5000)
        /\ \E i \in 1..Len(products) :
            products[i].price = Num(5000) /\ products[i].id = conn[c].req.id

\* C8: search with a non-empty q is answered 200 with the records, in store
\* order, whose name or description contains q case-insensitively, also when
\* the store holds records without a description; with q absent or empty it
\* is answered 400.
C8_SearchMatches ==
    \A c \in Conns :
        (Answered(c) /\ conn[c].req.op = "search")
            => LET q == conn[c].req.q
                   match(p) == ContainsText(p.name, q) \/ ContainsText(p.description, q)
               IN  IF q # Undef /\ q # Str(<<>>)
                   THEN /\ conn[c].res.status = 200
                        /\ conn[c].res.items = SelectSeq(conn[c].before, match)
                   ELSE conn[c].res.status = 400

\* C9: list with positive integers page and limit returns as total the number
\* of records whose category equals the filter case-insensitively (all of them
\* without a filter) and as products the elements at positions
\* [(page-1)*limit, page*limit) of that filtered sequence, none when the page
\* is past the end; it never changes the store.
C9_ListPages ==
    \A c \in Conns :
        (Answered(c) /\ conn[c].req.op = "list")
            => LET r == conn[c].req
                   same(p) == /\ p.category.t = "string"
                              /\ toLowerCase(p.category.s) = toLowerCase(r.category.s)
                   filtered == IF r.category = Undef THEN conn[c].before
                               ELSE SelectSeq(conn[c].before, same)
                   page == IF r.page = Undef THEN 1 ELSE ParseDigits(r.page.s)
                   limit == IF r.limit = Undef THEN 10 ELSE ParseDigits(r.limit.s)
                   lo == Min((page - 1) * limit, Len(filtered))
                   hi == Min(page * limit, Len(filtered))
               IN  /\ conn[c].res.status = 200
                   /\ conn[c].res.total = Len(filtered)
                   /\ conn[c].res.items = [k \in 1..(hi - lo) |-> filtered[lo + k]]
                   /\ conn[c].after = conn[c].before

\* C10: under any interleaving of concurrent requests, a delete answered 204
\* removed exactly a record with the id it named, and of two deletes of the
\* same stored id in flight together one is answered 204 and the other 404.
C10_AtomicDeletes ==
    /\ \A c \in Conns :
        (Answered(c) /\ conn[c].req.op = "delete" /\ conn[c].res.status = 204)
            => \E i \in 1..Len(conn[c].before) :
                    /\ conn[c].before[i].id = conn[c].req.id
                    /\ conn[c].after = splice(conn[c].before, i)
    /\ \A c \in Conns : \A d \in race[c] :
        (Answered(c) /\ Answered(d))
            => {conn[c].res.status, conn[d].res.status} = {204, 404}

====
